---- MODULE Spec2Model ----
(***************************************************************************)
(* Model of the daily-task engine of the goal-tracking backend:            *)
(*   AiService.calculateAdaptivePlan / generateTasks / getFallbackTasks    *)
(*   GoalTasksService.generateTasksForToday / calculateTaskParameters /    *)
(*   saveTasks / getTodayTasks / updateTaskStatus, DateTimeService, and    *)
(* of the goal-clarification flow:                                         *)
(*   GoalQuestionsService.answerQuestion, GoalSessionsService.completeSession *)
(*                                                                         *)
(* Time is counted in ticks; a calendar day (UTC) has TicksPerDay ticks.   *)
(* A JavaScript number that may be fractional is kept as an exact          *)
(* fraction <<num, den>>; the IEEE result NaN is the reserved value NaN.   *)
(***************************************************************************)
EXTENDS Integers, Sequences, FiniteSets, TLC

(* ------------------------------ bounds --------------------------------- *)
\* most tasks in a drawn task history
MaxHist == 4
\* oldest day of a drawn history, in days before today
MaxAge == 4
\* ticks per calendar day (the code counts milliseconds)
TicksPerDay == 2
\* most items in a task array the content generator answers with
MaxItems == 3

(* ------------------------- program constants --------------------------- *)
DEFAULT_TASK_COUNT == 3
DEFAULT_DIFFICULTY == 2
MIN_TASK_COUNT == 1
MAX_TASK_COUNT == 6
MIN_DIFFICULTY == 1
MAX_DIFFICULTY == 5
\* the recent window of calculateAdaptivePlan, in days
WINDOW_DAYS == 3

\* avgDifficulty of an empty recent window is 0/0, which is NaN
NaN == -1000000

Statuses == {"PENDING", "COMPLETED", "SKIPPED"}

(* --------------------------- Math of JavaScript ------------------------ *)
IsNaN(x) == x = NaN

MathMax(a, b) == IF IsNaN(a) \/ IsNaN(b) THEN NaN ELSE IF a >= b THEN a ELSE b

MathMin(a, b) == IF IsNaN(a) \/ IsNaN(b) THEN NaN ELSE IF a <= b THEN a ELSE b

\* a fraction num/den of two integers; den = 0 only arises as 0/0
Frac(num, den) == <<num, den>>

\* Math.floor(num/den)
MathFloor(q) == IF q[2] = 0 THEN NaN ELSE q[1] \div q[2]

\* Math.ceil(num/den)
MathCeil(q) == IF q[2] = 0 THEN NaN ELSE -((-q[1]) \div q[2])

\* Math.round(num/den): halves round towards +Infinity
MathRound(q) == IF q[2] = 0 THEN NaN ELSE (2 * q[1] + q[2]) \div (2 * q[2])

\* a >= b on fractions with positive denominators; false when either is NaN
FracGE(a, b) == a[2] # 0 /\ b[2] # 0 /\ a[1] * b[2] >= b[1] * a[2]

FracTimes(a, b) == Frac(a[1] * b[1], a[2] * b[2])

\* x + n and x - n, NaN staying NaN
Plus(x, n) == IF IsNaN(x) THEN NaN ELSE x + n

(* ------------------------------ DateTimeService ------------------------ *)
\* new Date().setUTCHours(0,0,0,0)
getStartOfTodayUTC(now) == (now \div TicksPerDay) * TicksPerDay

\* new Date().setUTCHours(24,0,0,0)
getEndOfTodayUTC(now) == (now \div TicksPerDay) * TicksPerDay + TicksPerDay

\* date.setDate(date.getDate() + days)
addDays(days, to) == to + days * TicksPerDay

\* Math.ceil((to - from) / msPerDay)
getDaysDifference(from, to) == MathCeil(Frac(to - from, TicksPerDay))

\* date.toISOString().split('T')[0]: the UTC calendar day of an instant
toDateOnlyString(date) == date \div TicksPerDay

(* ------------------------------ sequences ------------------------------ *)
\* tasks.reduce((sum, t) => sum + t.difficulty, 0)
RECURSIVE SumDifficulty(_)
SumDifficulty(s) == IF s = <<>> THEN 0 ELSE Head(s).difficulty + SumDifficulty(Tail(s))

CountSeq(s, P(_)) == Len(SelectSeq(s, P))

SetMax(S) == CHOOSE x \in S : \A y \in S : y <= x

\* F(v), with v evaluated once however often F uses it (a const of the code)
Apply(F(_), v) == CHOOSE y \in {F(x) : x \in {v}} : TRUE

(* =================== AiService.calculateAdaptivePlan =================== *)
\* previousTasks.filter(t => t.date >= THREE_DAYS_AGO)
RecentTasks(previousTasks, now) ==
    SelectSeq(previousTasks, LAMBDA t : t.date >= addDays(-WINDOW_DAYS, now))

\* the keys of tasksByDate
DateKeys(tasks) == {toDateOnlyString(tasks[i].date) : i \in DOMAIN tasks}

\* tasksByDate.get(key)
TasksOfDay(tasks, key) == SelectSeq(tasks, LAMBDA t : toDateOnlyString(t.date) = key)

\* variant: a day counts as missed as soon as one of its tasks is not COMPLETED
SomeMissed(dayTasks) == \E i \in DOMAIN dayTasks : dayTasks[i].status # "COMPLETED"

\* dayTasks.every(t => t.status !== 'COMPLETED')
AllMissed(dayTasks) == \A i \in DOMAIN dayTasks : dayTasks[i].status # "COMPLETED"

\* the loop over sortedDays (descending keys), breaking at the first day with a completion
RECURSIVE MissedRun(_, _)
MissedRun(tasks, keys) ==
    IF keys = {} THEN 0
    ELSE LET k == SetMax(keys)
         IN IF AllMissed(TasksOfDay(tasks, k))
            THEN 1 + MissedRun(tasks, keys \ {k})
            ELSE 0

CompletionRatio(recent) ==
    IF Len(recent) > 0
    THEN Frac(CountSeq(recent, LAMBDA t : t.status = "COMPLETED"), Len(recent))
    ELSE Frac(0, 1)

AvgDifficulty(recent) == Frac(SumDifficulty(recent), Len(recent))

AvgTaskCount(recent) ==
    IF Cardinality(DateKeys(recent)) > 0
    THEN Frac(Len(recent), Cardinality(DateKeys(recent)))
    ELSE Frac(DEFAULT_TASK_COUNT, 1)

\* variant: the last week starts below 7 days
UrgencyMultiplierBelowSeven(daysUntilDeadline) ==
    IF daysUntilDeadline < 7 THEN Frac(12, 10)
    ELSE IF daysUntilDeadline <= 30 THEN Frac(11, 10)
    ELSE Frac(1, 1)

UrgencyMultiplier(daysUntilDeadline) ==
    IF daysUntilDeadline <= 7 THEN Frac(12, 10)
    ELSE IF daysUntilDeadline <= 30 THEN Frac(11, 10)
    ELSE Frac(1, 1)

\* variant: INTERVENTION only from the fourth missed day on
SelectStrategyFromFourthDay(consecutiveMissedDays, completionRatio) ==
    IF consecutiveMissedDays > 3 THEN "INTERVENTION"
    ELSE IF FracGE(completionRatio, Frac(8, 10)) THEN "PROGRESSIVE"
    ELSE IF FracGE(completionRatio, Frac(5, 10)) THEN "BALANCED"
    ELSE IF FracGE(completionRatio, Frac(2, 10)) THEN "RECOVERY"
    ELSE "RESET"

\* the if / else-if chain choosing the strategy
SelectStrategy(consecutiveMissedDays, completionRatio) ==
    IF consecutiveMissedDays >= 3 THEN "INTERVENTION"
    ELSE IF FracGE(completionRatio, Frac(8, 10)) THEN "PROGRESSIVE"
    ELSE IF FracGE(completionRatio, Frac(5, 10)) THEN "BALANCED"
    ELSE IF FracGE(completionRatio, Frac(2, 10)) THEN "RECOVERY"
    ELSE "RESET"

\* the per-strategy values before the final clamp
StrategyValues(strategyName, avgDifficulty, avgTaskCount, daysUntilDeadline) ==
    CASE strategyName = "INTERVENTION" ->
           [difficulty |-> MathMax(MIN_DIFFICULTY, Plus(MathFloor(avgDifficulty), -1)),
            count |-> MathMax(MIN_TASK_COUNT, Plus(MathFloor(avgTaskCount), -1)),
            carryOverRatio |-> Frac(8, 10)]
      [] strategyName = "PROGRESSIVE" ->
           [difficulty |-> MathMin(MAX_DIFFICULTY, Plus(MathCeil(avgDifficulty), 1)),
            count |-> MathMin(MAX_TASK_COUNT,
                              Plus(MathCeil(FracTimes(avgTaskCount,
                                                      UrgencyMultiplier(daysUntilDeadline))), 1)),
            carryOverRatio |-> Frac(0, 1)]
      [] strategyName = "BALANCED" ->
           [difficulty |-> MathRound(avgDifficulty),
            count |-> MathRound(avgTaskCount),
            carryOverRatio |-> Frac(2, 10)]
      [] strategyName = "RECOVERY" ->
           [difficulty |-> MathMax(MIN_DIFFICULTY, Plus(MathFloor(avgDifficulty), -1)),
            count |-> MathMax(MIN_TASK_COUNT, MathFloor(avgTaskCount)),
            carryOverRatio |-> Frac(5, 10)]
      [] strategyName = "RESET" ->
           [difficulty |-> MathMax(MIN_DIFFICULTY, Plus(MathFloor(avgDifficulty), -1)),
            count |-> MathMax(MIN_TASK_COUNT, Plus(MathFloor(avgTaskCount), -1)),
            carryOverRatio |-> Frac(7, 10)]

\* Math.max(0, Math.min(1, carryOverRatio))
ClampRatio(r) ==
    IF FracGE(r, Frac(1, 1)) THEN Frac(1, 1)
    ELSE IF FracGE(Frac(0, 1), r) THEN Frac(0, 1)
    ELSE r

\* variant: a cold start at the legacy baseline difficulty 1
ColdStartPlanAtBaseline ==
    [finalTaskCount |-> DEFAULT_TASK_COUNT,
     finalDifficulty |-> 1,
     carryOverRatio |-> Frac(0, 1),
     strategyName |-> "BALANCED",
     completionRatio |-> Frac(0, 1),
     consecutiveMissedDays |-> 0]

\* the plan returned when there are no previous tasks
ColdStartPlan ==
    [finalTaskCount |-> DEFAULT_TASK_COUNT,
     finalDifficulty |-> DEFAULT_DIFFICULTY,
     carryOverRatio |-> Frac(0, 1),
     strategyName |-> "BALANCED",
     completionRatio |-> Frac(0, 1),
     consecutiveMissedDays |-> 0]

calculateAdaptivePlan(previousTasks, now, daysUntilDeadline) ==
    IF Len(previousTasks) = 0
    THEN ColdStartPlan
    ELSE Apply(LAMBDA recent :
           LET completionRatio == CompletionRatio(recent)
               consecutiveMissedDays == MissedRun(recent, DateKeys(recent))
               strategyName == SelectStrategy(consecutiveMissedDays, completionRatio)
           IN Apply(LAMBDA v :
                  [finalTaskCount |->
                       MathMax(MIN_TASK_COUNT, MathMin(MAX_TASK_COUNT, v.count)),
                   finalDifficulty |->
                       MathMax(MIN_DIFFICULTY, MathMin(MAX_DIFFICULTY, v.difficulty)),
                   carryOverRatio |-> ClampRatio(v.carryOverRatio),
                   strategyName |-> strategyName,
                   completionRatio |-> completionRatio,
                   consecutiveMissedDays |-> consecutiveMissedDays],
                  StrategyValues(strategyName, AvgDifficulty(recent),
                                 AvgTaskCount(recent), daysUntilDeadline)),
           RecentTasks(previousTasks, now))

(* ============ GoalTasksService.calculateTaskParameters ================= *)
\* mostRecentTasks[0]?.difficulty + 1 || 1
NextDifficultyOr1(mostRecentTasks) ==
    IF Len(mostRecentTasks) = 0 THEN 1
    ELSE IF mostRecentTasks[1].difficulty + 1 = 0 THEN 1
    ELSE mostRecentTasks[1].difficulty + 1

\* variant: no final clamp
ClampTaskParametersOff(p) == p

\* "Ensure reasonable bounds": count into [2,8], difficulty into [1,5]
ClampTaskParameters(p) ==
    [count |-> MathMax(2, MathMin(p.count, 8)),
     difficulty |-> MathMax(1, MathMin(p.difficulty, 5))]

\* variant: the oldest day of the history
OldestDate(previousTasks) ==
    CHOOSE k \in DateKeys(previousTasks) : \A j \in DateKeys(previousTasks) : k <= j

\* dates = Array.from(tasksByDate.keys()).sort().reverse(); mostRecentDate = dates[0]
MostRecentDate(previousTasks) == SetMax(DateKeys(previousTasks))

\* variant: the boost also on the day of the deadline
DeadlineBoostFromDayZero(p, daysUntilDeadline) ==
    IF daysUntilDeadline <= 7 /\ daysUntilDeadline >= 0
    THEN [count |-> MathMin(p.count + 1, 8), difficulty |-> MathMin(p.difficulty + 1, 5)]
    ELSE p

\* "Approaching deadline adjustment"
DeadlineBoost(p, daysUntilDeadline) ==
    IF daysUntilDeadline <= 7 /\ daysUntilDeadline > 0
    THEN [count |-> MathMin(p.count + 1, 8), difficulty |-> MathMin(p.difficulty + 1, 5)]
    ELSE p

calculateTaskParameters(goalDeadline, previousTasks, clock) ==
    LET today == getStartOfTodayUTC(clock)
        daysUntilDeadline == getDaysDifference(today, goalDeadline)
    IN IF Len(previousTasks) = 0 THEN [count |-> 3, difficulty |-> 1]
       ELSE
       LET mostRecentDate == MostRecentDate(previousTasks)
           mostRecentTasks == TasksOfDay(previousTasks, mostRecentDate)
           completedCount == CountSeq(mostRecentTasks, LAMBDA t : t.status = "COMPLETED")
           totalCount == Len(mostRecentTasks)
           completionRate ==
               IF totalCount > 0 THEN Frac(completedCount, totalCount) ELSE Frac(0, 1)
           completedTasks == SelectSeq(previousTasks, LAMBDA t : t.status = "COMPLETED")
           avgCompletedDifficulty ==
               IF Len(completedTasks) > 0
               THEN Frac(SumDifficulty(completedTasks), Len(completedTasks))
               ELSE Frac(1, 1)
           \* avgCompletedDifficulty + 0.5
           avgPlusHalf == Frac(2 * avgCompletedDifficulty[1] + avgCompletedDifficulty[2],
                               2 * avgCompletedDifficulty[2])
           byRate ==
               IF completionRate[1] = completionRate[2]
               THEN [count |-> totalCount + 1,
                     difficulty |-> MathMin(NextDifficultyOr1(mostRecentTasks), 5)]
               ELSE IF FracGE(completionRate, Frac(7, 10))
               THEN [count |-> totalCount,
                     difficulty |-> MathMin(MathRound(avgPlusHalf), 5)]
               ELSE [count |-> totalCount,
                     difficulty |-> MathMax(MathRound(avgCompletedDifficulty), 1)]
       IN ClampTaskParameters(DeadlineBoost(byRate, daysUntilDeadline))

(* ===================== AiService.getFallbackTasks ====================== *)
\* the templates table holds 3 entries for each difficulty 1..5
TemplatesPerLevel == 3

\* Math.max(1, Math.min(5, difficulty))
DifficultyKey(difficulty) == MathMax(1, MathMin(5, difficulty))

\* templates[NaN] is undefined: reading its length raises a TypeError in the first iteration
FallbackThrows(count, difficulty) == count > 0 /\ IsNaN(DifficultyKey(difficulty))

\* a title is <<template level, template index, suffix>>, suffix 0 standing for none
getFallbackTasks(count, difficulty) ==
    [k \in 1..count |->
        [title |-> <<"template", DifficultyKey(difficulty), (k - 1) % TemplatesPerLevel,
                     IF k - 1 > 2 THEN k ELSE 0>>,
         difficulty |-> difficulty]]

(* ======================= AiService.generateTasks ======================= *)
\* what the content generator can do with a request
ResponseKinds == {"throws", "emptyText", "unparseable", "noTaskArray", "tasks"}

\* an item's difficulty field when the generator leaves it out
Absent == 0

\* t.title && t.title.trim().length > 0
ValidTitle(title) == title # "" /\ title # " "

\* Math.max(1, Math.min(5, t.difficulty || finalDifficulty))
ItemDifficulty(d, finalDifficulty) ==
    MathMax(1, MathMin(5, IF d = Absent THEN finalDifficulty ELSE d))

\* parsed.tasks.filter(...).map(...)
Sanitize(items, finalDifficulty) ==
    LET kept == SelectSeq(items, LAMBDA t : ValidTitle(t.title))
    IN [k \in 1..Len(kept) |->
           [title |-> <<"generated", kept[k].title>>,
            difficulty |-> ItemDifficulty(kept[k].difficulty, finalDifficulty)]]

\* .slice(0, n)
Slice(s, n) == SubSeq(s, 1, IF Len(s) < n THEN Len(s) ELSE n)

\* variant: a catch block that answers with no task at all
CatchFallbackEmpty(count, difficulty) == <<>>

\* the catch block: fallback tasks for the caller's count and difficulty
CatchFallback(count, difficulty) == getFallbackTasks(count, difficulty)

\* the body of the try block once the generator's answer has been parsed into a task array
ComposeTasks(items, plan, count, difficulty) ==
    LET finalCount == plan.finalTaskCount
        finalDifficulty == plan.finalDifficulty
        tasks == Slice(Sanitize(items, finalDifficulty), finalCount)
    IN IF Len(tasks) = 0
       THEN IF FallbackThrows(finalCount, finalDifficulty)
            THEN CatchFallback(count, difficulty)
            ELSE getFallbackTasks(finalCount, finalDifficulty)
       ELSE IF Len(tasks) < finalCount
       THEN IF FallbackThrows(finalCount - Len(tasks), finalDifficulty)
            THEN CatchFallback(count, difficulty)
            ELSE tasks \o getFallbackTasks(finalCount - Len(tasks), finalDifficulty)
       ELSE tasks

\* variant: the adapted share rounded up
AdaptedTaskCountCeil(plan) ==
    MathCeil(FracTimes(Frac(plan.finalTaskCount, 1), plan.carryOverRatio))

\* adaptedTaskCount = Math.round(finalCount * adaptivePlan.carryOverRatio)
AdaptedTaskCount(plan) ==
    MathRound(FracTimes(Frac(plan.finalTaskCount, 1), plan.carryOverRatio))

\* newTaskCount = finalCount - adaptedTaskCount
NewTaskCount(plan) == plan.finalTaskCount - AdaptedTaskCount(plan)

\* generateTasks, given whether the generator is configured and what it answers
generateTasks(goalDeadline, previousTasks, count, difficulty, isConfigured, clock, response) ==
    IF ~isConfigured THEN getFallbackTasks(count, difficulty)
    ELSE LET daysUntilDeadline == getDaysDifference(clock, goalDeadline)
             adaptivePlan == calculateAdaptivePlan(previousTasks, clock, daysUntilDeadline)
         IN IF response.kind # "tasks"
            THEN CatchFallback(count, difficulty)
            ELSE Apply(LAMBDA plan : ComposeTasks(response.items, plan, count, difficulty),
                       adaptivePlan)

(* ============================ the state ================================ *)
VARIABLES
    dailyTask,   \* the DailyTask table: rows in creation order
    now,         \* the clock: the current instant, in ticks
    deadline,    \* goal.deadline of the one stored goal, an instant in ticks
    configured,  \* GEMINI_API_KEY is set and the model was built
    pastDay,     \* the earlier days still to go by before today, counted down to 0
    planCall,    \* the last call of calculateAdaptivePlan: its arguments and result
    pc,          \* where each generateTasksForToday request stands
    call,        \* the local variables of each request
    reply,       \* what the last getTodayTasks or updateTaskStatus request answered
    goalAnswer,  \* the GoalAnswer table: rows in creation order
    goal,        \* the Goal rows that completeSession created, in creation order
    goalSession, \* the one stored GoalSession row
    handler      \* where each answerQuestion or completeSession request stands

vars == <<dailyTask, now, deadline, configured, pastDay, planCall, pc, call, reply,
          goalAnswer, goal, goalSession, handler>>

\* the state of the goal-clarification flow, which the task engine never touches
sessionVars == <<goalAnswer, goal, goalSession, handler>>

\* the state of the task engine, which the goal-clarification flow never touches
taskVars == <<dailyTask, now, deadline, configured, pastDay, planCall, pc, call, reply>>

GoalId == "g1"

\* a goal id that resolves to no goal
MissingGoalId == "g0"

\* the requests in flight
Requests == {"r1", "r2"}

\* the calendar day the model runs on
Today == MaxAge + 1

\* the clock readings tried: midnight (UTC) and the last tick of the day
TimesOfDay == {0, TicksPerDay - 1}

\* goal.deadline, in whole days from today
DeadlineDays == {-1, 0, 7, 10, 31}

\* the difficulties of the stored tasks of earlier days
HistDifficulties == {2, 5}

(* ------------------ the goal-clarification flow at rest ---------------- *)
\* goalSession.goalId of a session not linked to a goal (NULL)
NoGoal == 0

\* a request that is not an answerQuestion or completeSession in progress
IdleHandler == [op |-> "none", pc |-> "idle", id |-> "none", answerText |-> "none",
                answers |-> <<>>, goalId |-> NoGoal, error |-> "none"]

\* the session as GoalSessionsService.create stores it, no question answered, no goal
SessionStoreInit ==
    /\ goalAnswer = <<>>
    /\ goal = <<>>
    /\ goalSession = [status |-> "in_progress", goalId |-> NoGoal]
    /\ handler = [r \in Requests |-> IdleHandler]

(* ------------------- task histories already stored --------------------- *)
\* c COMPLETED, then p PENDING, then s SKIPPED tasks
StatusSeq(c, p, s) ==
    [i \in 1..(c + p + s) |->
        IF i <= c THEN "COMPLETED" ELSE IF i <= c + p THEN "PENDING" ELSE "SKIPPED"]

\* the rows one generation stored `age` days ago: one date, one difficulty
Batch(age, difficulty, statuses) ==
    [i \in 1..Len(statuses) |->
        [goalId |-> GoalId, title |-> <<"stored", age, i>>,
         date |-> (Today - age) * TicksPerDay,
         difficulty |-> difficulty, status |-> statuses[i]]]

\* the batches of n rows a generation can have stored `age` days ago
BatchesOf(age, n) ==
    IF n = 0 THEN {<<>>}
    ELSE {Batch(age, d, StatusSeq(c, p, n - c - p)) :
             d \in HistDifficulties,
             <<c, p>> \in {t \in (0..n) \X (0..n) : t[1] + t[2] <= n}}

(* ----------------------------- persistence ----------------------------- *)
\* insertion of x into a sequence sorted by date descending, after its equals
RECURSIVE InsertByDateDesc(_, _)
InsertByDateDesc(x, s) ==
    IF s = <<>> THEN <<x>>
    ELSE IF x.date > Head(s).date THEN <<x>> \o s
    ELSE <<Head(s)>> \o InsertByDateDesc(x, Tail(s))

\* orderBy: { date: 'desc' }
RECURSIVE OrderByDateDesc(_)
OrderByDateDesc(s) ==
    IF s = <<>> THEN <<>> ELSE InsertByDateDesc(Head(s), OrderByDateDesc(Tail(s)))

\* prisma.dailyTask.findMany({ where: { goalId, date: { lt: today } }, orderBy: { date: 'desc' } })
findPreviousTasks(table, goalId, today) ==
    OrderByDateDesc(SelectSeq(table, LAMBDA t : t.goalId = goalId /\ t.date < today))

\* variant: a lookup that resolves every goal id
GoalExistsAlways(goalId) == TRUE

\* prisma.goal.findUnique({ where: { id: goalId } }) finds a goal
GoalExists(goalId) == goalId = GoalId

\* variant: a day range that leaves out the start of today
getTodayTasksAfterStart(table, goalId, clock) ==
    SelectSeq(table, LAMBDA t : /\ t.goalId = goalId
                                /\ t.date > getStartOfTodayUTC(clock)
                                /\ t.date < getEndOfTodayUTC(clock))

\* the dailyTasks that getTodayTasks includes: date in [start of today, end of today)
getTodayTasks(table, goalId, clock) ==
    SelectSeq(table, LAMBDA t : /\ t.goalId = goalId
                                /\ t.date >= getStartOfTodayUTC(clock)
                                /\ t.date < getEndOfTodayUTC(clock))

\* variant: a row dated at the instant of its creation
NewRowAtNow(goalId, taskData, difficulty, clock) ==
    [goalId |-> goalId, title |-> taskData.title, date |-> clock,
     difficulty |-> difficulty, status |-> "PENDING"]

\* the row one prisma.dailyTask.create of saveTasks stores
NewRow(goalId, taskData, difficulty, clock) ==
    [goalId |-> goalId, title |-> taskData.title, date |-> getStartOfTodayUTC(clock),
     difficulty |-> difficulty, status |-> "PENDING"]

(* ---------------- calculateAdaptivePlan on drawn histories ------------- *)
NoCall == [called |-> FALSE]

\* no getTodayTasks or updateTaskStatus request answered yet
NoReply == [op |-> "none", error |-> "none"]

\* generateTasks has not computed a plan for the request
NoPlan == [strategyName |-> "none"]

\* a request not yet received: no local is set
Idle == [goalId |-> GoalId, after |-> {}, afterFailed |-> {}, existing |-> <<>>, previousTasks |-> <<>>,
         taskParams |-> [count |-> 0, difficulty |-> 0], answers |-> TRUE,
         response |-> [kind |-> "none", valid |-> 0], plan |-> NoPlan,
         generatedTasks |-> <<>>, saved |-> <<>>, error |-> "none"]

\* two full days: 3 tasks two days ago and 4 yesterday, all COMPLETED (an average of
\* 3.5 tasks a day, which the urgency multipliers 1.2 and 1.1 round apart)
BusyHistories ==
    {Batch(2, d, StatusSeq(3, 0, 0)) \o Batch(1, d, StatusSeq(4, 0, 0)) : d \in HistDifficulties}

InitPlan ==
    /\ \/ dailyTask = <<>> /\ pastDay = MaxAge
       \/ dailyTask \in BusyHistories /\ pastDay = 0
    /\ now \in {Today * TicksPerDay + tod : tod \in TimesOfDay}
    /\ deadline \in {(Today + d) * TicksPerDay : d \in DeadlineDays}
    /\ configured = TRUE
    /\ planCall = NoCall
    /\ pc = [r \in Requests |-> "idle"]
    /\ call = [r \in Requests |-> Idle]
    /\ reply = NoReply
    /\ SessionStoreInit

\* an earlier calendar day goes by: a generation of that day stored n rows (saveTasks),
\* and the user set their statuses (updateTaskStatus); n = 0 is a day without generation
PastDay ==
    /\ pastDay >= 1
    /\ \E n \in 0..(MaxHist - Len(dailyTask)) :
         \E b \in BatchesOf(pastDay, n) : dailyTask' = dailyTask \o b
    /\ pastDay' = pastDay - 1
    /\ UNCHANGED <<now, deadline, configured, planCall, pc, call, reply, sessionVars>>

\* the call generateTasks makes: the goal's previous tasks, the days to the deadline;
\* taskParams is what calculateTaskParameters gave generateTasksForToday just before it,
\* adaptedTaskCount and newTaskCount what generateTasks derives from the plan right after
CallCalculateAdaptivePlan ==
    /\ pastDay = 0
    /\ ~planCall.called
    /\ \E previousTasks \in {findPreviousTasks(dailyTask, GoalId, getStartOfTodayUTC(now))},
          daysUntilDeadline \in {getDaysDifference(now, deadline)} :
       \E plan \in {calculateAdaptivePlan(previousTasks, now, daysUntilDeadline)} :
          planCall' = [called |-> TRUE,
                       previousTasks |-> previousTasks,
                       daysUntilDeadline |-> daysUntilDeadline,
                       plan |-> plan,
                       taskParams |-> calculateTaskParameters(deadline, previousTasks, now),
                       adaptedTaskCount |-> AdaptedTaskCount(plan),
                       newTaskCount |-> NewTaskCount(plan)]
    /\ UNCHANGED <<dailyTask, now, deadline, configured, pastDay, pc, call, reply, sessionVars>>

NextPlan == PastDay \/ CallCalculateAdaptivePlan

SpecPlan == InitPlan /\ [][NextPlan]_vars

(* ================ GoalTasksService.generateTasksForToday ================ *)
\* the histories the requests of today find stored
Scenarios ==
    { <<>>,
      Batch(1, 2, StatusSeq(3, 0, 0)),
      Batch(2, 2, StatusSeq(0, 0, 2)) \o Batch(1, 2, StatusSeq(0, 0, 2)),
      Batch(4, 1, StatusSeq(0, 1, 0)) \o Batch(3, 1, StatusSeq(0, 1, 0))
          \o Batch(2, 1, StatusSeq(0, 1, 0)) \o Batch(1, 1, StatusSeq(0, 1, 0)),
      Batch(4, 2, StatusSeq(2, 0, 0)) }

\* the items of a task array: a usable title without difficulty, or a blank title
Items == {[title |-> "Read", difficulty |-> Absent], [title |-> " ", difficulty |-> Absent]}

\* goal.deadline of the goal the requests are for, in whole days from today
GoalDeadlineDays == {0, 10}

ItemSeqs == UNION {[1..n -> Items] : n \in 0..MaxItems}

\* the answers of the content generator
Responses ==
    {[kind |-> k, items |-> <<>>] : k \in ResponseKinds \ {"tasks"}}
    \cup {[kind |-> "tasks", items |-> it] : it \in ItemSeqs}

Init ==
    /\ dailyTask \in Scenarios
    /\ pastDay = 0
    /\ now \in {Today * TicksPerDay + tod : tod \in TimesOfDay}
    /\ deadline \in {(Today + d) * TicksPerDay : d \in GoalDeadlineDays}
    /\ configured \in BOOLEAN
    /\ planCall = NoCall
    /\ pc = [r \in Requests |-> "idle"]
    /\ call = [r \in Requests |-> Idle]
    /\ reply = NoReply
    /\ SessionStoreInit

\* variant: a plan worked out from the rows stored now, not from the history handed in
AdaptivePlanFromStore(previousTasks) ==
    calculateAdaptivePlan(OrderByDateDesc(SelectSeq(dailyTask, LAMBDA t : t.goalId = GoalId)),
                          now, getDaysDifference(now, deadline))

\* adaptivePlan = this.calculateAdaptivePlan(previousTasks, daysUntilDeadline)
AdaptivePlanFor(previousTasks) ==
    calculateAdaptivePlan(previousTasks, now, getDaysDifference(now, deadline))

\* saveTasks with nothing to save returns at once
PcToSave(generatedTasks) == IF Len(generatedTasks) = 0 THEN "done" ELSE "save"

\* the request arrives: prisma.goal.findUnique, NotFound when the goal does not resolve
\* (the requests are interchangeable: r1 names the one that arrives first)
GenerateStart(r, g) ==
    /\ pc[r] = "idle"
    /\ r = "r2" => pc["r1"] # "idle"
    /\ call' = [call EXCEPT ![r].goalId = g,
                            ![r].after = {q \in Requests : pc[q] = "done"},
                            ![r].afterFailed = {q \in Requests : pc[q] = "failed"},
                            ![r].error = IF GoalExists(g) THEN "none" ELSE "NotFound"]
    /\ pc' = [pc EXCEPT ![r] = IF GoalExists(g) THEN "check" ELSE "failed"]
    /\ UNCHANGED <<dailyTask, now, deadline, configured, pastDay, planCall, reply, sessionVars>>

\* existingTasks = await this.getTodayTasks(goalId); returned when not empty
CheckExisting(r) ==
    /\ pc[r] = "check"
    /\ LET existingTasks == getTodayTasks(dailyTask, call[r].goalId, now)
       IN /\ call' = [call EXCEPT ![r].existing = existingTasks]
          /\ pc' = [pc EXCEPT ![r] = IF Len(existingTasks) > 0 THEN "done" ELSE "fetch"]
    /\ UNCHANGED <<dailyTask, now, deadline, configured, pastDay, planCall, reply, sessionVars>>

\* previousTasks = await findMany(...); calculateTaskParameters; generateTasks up to its
\* first await: the fallback when unconfigured, else the call of model.generateContent
FetchPreviousTasks(r) ==
    /\ pc[r] = "fetch"
    /\ \E previousTasks \in
             {findPreviousTasks(dailyTask, call[r].goalId, getStartOfTodayUTC(now))} :
       \E taskParams \in {calculateTaskParameters(deadline, previousTasks, now)} :
       \E fallback \in {generateTasks(deadline, previousTasks, taskParams.count,
                                      taskParams.difficulty, FALSE, now,
                                      [kind |-> "none", items |-> <<>>])} :
          IF configured
          THEN /\ \E a \in BOOLEAN :
                    call' = [call EXCEPT ![r].previousTasks = previousTasks,
                                         ![r].taskParams = taskParams,
                                         ![r].plan = AdaptivePlanFor(previousTasks),
                                         ![r].answers = a]
               /\ pc' = [pc EXCEPT ![r] = "awaitAI"]
          ELSE /\ call' = [call EXCEPT ![r].previousTasks = previousTasks,
                                       ![r].taskParams = taskParams,
                                       ![r].generatedTasks = fallback]
               /\ pc' = [pc EXCEPT ![r] = PcToSave(fallback)]
    /\ UNCHANGED <<dailyTask, now, deadline, configured, pastDay, planCall, reply, sessionVars>>

\* model.generateContent settles: the rest of generateTasks runs and returns its tasks
GeneratorAnswers(r) ==
    /\ pc[r] = "awaitAI"
    /\ call[r].answers
    /\ \E resp \in Responses :
         \E generatedTasks \in
                 {generateTasks(deadline, call[r].previousTasks, call[r].taskParams.count,
                                call[r].taskParams.difficulty, TRUE, now, resp)} :
            /\ call' = [call EXCEPT ![r].response =
                                        [kind |-> resp.kind,
                                         valid |-> CountSeq(resp.items,
                                                            LAMBDA t : ValidTitle(t.title))],
                                    ![r].generatedTasks = generatedTasks]
            /\ pc' = [pc EXCEPT ![r] = PcToSave(generatedTasks)]
    /\ UNCHANGED <<dailyTask, now, deadline, configured, pastDay, planCall, reply, sessionVars>>

\* one iteration of the loop of saveTasks: prisma.dailyTask.create stores a row
SaveTask(r) ==
    /\ pc[r] = "save"
    /\ LET taskData == call[r].generatedTasks[Len(call[r].saved) + 1]
           row == NewRow(call[r].goalId, taskData, call[r].taskParams.difficulty, now)
       IN /\ dailyTask' = Append(dailyTask, row)
          /\ call' = [call EXCEPT ![r].saved = Append(@, row)]
          /\ pc' = [pc EXCEPT ![r] = IF Len(call[r].saved) + 1 = Len(call[r].generatedTasks)
                                     THEN "done" ELSE "save"]
    /\ UNCHANGED <<now, deadline, configured, pastDay, planCall, reply, sessionVars>>

\* variant: saveTasks in a transaction, a rejected create taking back the rows of the batch
CreateFailsRollingBack(r) ==
    /\ pc[r] = "save"
    /\ dailyTask' = SelectSeq(dailyTask,
                              LAMBDA t : \A k \in DOMAIN call[r].saved : t # call[r].saved[k])
    /\ call' = [call EXCEPT ![r].error = "PersistenceFailure"]
    /\ pc' = [pc EXCEPT ![r] = "failed"]
    /\ UNCHANGED <<now, deadline, configured, pastDay, planCall, reply, sessionVars>>

\* prisma.dailyTask.create rejects: the error leaves saveTasks and the request
CreateFails(r) ==
    /\ pc[r] = "save"
    /\ call' = [call EXCEPT ![r].error = "PersistenceFailure"]
    /\ pc' = [pc EXCEPT ![r] = "failed"]
    /\ UNCHANGED <<dailyTask, now, deadline, configured, pastDay, planCall, reply, sessionVars>>

generateTasksForToday(r) ==
    \/ \E g \in {GoalId, MissingGoalId} : GenerateStart(r, g)
    \/ CheckExisting(r)
    \/ FetchPreviousTasks(r)
    \/ GeneratorAnswers(r)
    \/ SaveTask(r)
    \/ CreateFails(r)

Next == \E r \in Requests : generateTasksForToday(r)

Spec == Init /\ [][Next]_vars

\* the event loop runs every continuation that is ready
FairSpec == Init /\ [][Next]_vars /\ \A r \in Requests : WF_vars(generateTasksForToday(r))

\* what a finished request returns: the stored rows it found, or the rows it created
Returned(r) == IF Len(call[r].existing) > 0 THEN call[r].existing ELSE call[r].saved

(* ======= the requests of a day: generate, read, update the status ====== *)
\* most task ids a status update is tried on: the id of a row is its place in the table
MaxTaskId == 2

TaskIds == 1..MaxTaskId

\* the histories stored when the day begins
DayScenarios == {<<>>, Batch(1, 2, StatusSeq(1, 1, 0)), Batch(4, 2, StatusSeq(2, 0, 0))}

InitDay ==
    /\ dailyTask \in DayScenarios
    /\ pastDay = 0
    /\ now \in {Today * TicksPerDay + tod : tod \in TimesOfDay}
    /\ deadline = (Today + 10) * TicksPerDay
    /\ configured \in BOOLEAN
    /\ planCall = NoCall
    /\ pc = [r \in Requests |-> "idle"]
    /\ call = [r \in Requests |-> Idle]
    /\ reply = NoReply
    /\ SessionStoreInit

\* variant: an update that only takes a task out of PENDING
updateTaskStatusFromPending(taskId, status) ==
    /\ IF taskId \in DOMAIN dailyTask
       THEN /\ dailyTask' = [dailyTask EXCEPT ![taskId].status =
                                 IF @ = "PENDING" THEN status ELSE @]
            /\ reply' = [op |-> "updateTaskStatus", taskId |-> taskId, status |-> status,
                         error |-> "none", tasks |-> <<dailyTask'[taskId]>>]
       ELSE /\ reply' = [op |-> "updateTaskStatus", taskId |-> taskId, status |-> status,
                         error |-> "NotFound", tasks |-> <<>>]
            /\ UNCHANGED dailyTask
    /\ UNCHANGED <<now, deadline, configured, pastDay, planCall, pc, call, sessionVars>>

\* updateTaskStatus: findUnique, NotFound when no row has the id, else update { status }
updateTaskStatus(taskId, status) ==
    /\ IF taskId \in DOMAIN dailyTask
       THEN /\ dailyTask' = [dailyTask EXCEPT ![taskId].status = status]
            /\ reply' = [op |-> "updateTaskStatus", taskId |-> taskId, status |-> status,
                         error |-> "none",
                         tasks |-> <<[dailyTask[taskId] EXCEPT !.status = status]>>]
       ELSE /\ reply' = [op |-> "updateTaskStatus", taskId |-> taskId, status |-> status,
                         error |-> "NotFound", tasks |-> <<>>]
            /\ UNCHANGED dailyTask
    /\ UNCHANGED <<now, deadline, configured, pastDay, planCall, pc, call, sessionVars>>

\* the getTodayTasks request: NotFound when the goal does not resolve, else today's rows
GetTodayTasks(g) ==
    /\ reply' = IF GoalExists(g)
                THEN [op |-> "getTodayTasks", goalId |-> g, error |-> "none",
                      tasks |-> getTodayTasks(dailyTask, g, now)]
                ELSE [op |-> "getTodayTasks", goalId |-> g, error |-> "NotFound",
                      tasks |-> <<>>]
    /\ UNCHANGED <<dailyTask, now, deadline, configured, pastDay, planCall, pc, call, sessionVars>>

\* the request has answered (tasks or an error); the next one can be received
RequestEnds(r) ==
    /\ pc[r] \in {"done", "failed"}
    /\ pc' = [pc EXCEPT ![r] = "idle"]
    /\ call' = [call EXCEPT ![r] = Idle]
    /\ UNCHANGED <<dailyTask, now, deadline, configured, pastDay, planCall, reply, sessionVars>>

\* the generateTasksForToday requests of the day come one after the other
DayRequests == {"r1"}

NextDay ==
    \/ \E r \in DayRequests : generateTasksForToday(r) \/ RequestEnds(r)
    \/ \E taskId \in TaskIds, status \in Statuses : updateTaskStatus(taskId, status)
    \/ \E g \in {GoalId, MissingGoalId} : GetTodayTasks(g)

SpecDay == InitDay /\ [][NextDay]_vars

(* ===================== getFallbackTasks on its own ===================== *)
\* most tasks asked of getFallbackTasks (the legacy count reaches 8)
MaxCount == 8

\* the difficulties generateTasks hands over: the legacy 1..5, and the plan's
\* finalDifficulty, which is 1..5 or NaN
FallbackDifficulties == (MIN_DIFFICULTY..MAX_DIFFICULTY) \cup {NaN}

InitFallback ==
    /\ dailyTask = <<>>
    /\ pastDay = 0
    /\ now = Today * TicksPerDay
    /\ deadline = (Today + 10) * TicksPerDay
    /\ configured = TRUE
    /\ planCall = NoCall
    /\ pc = [r \in Requests |-> "idle"]
    /\ call = [r \in Requests |-> Idle]
    /\ reply = NoReply
    /\ SessionStoreInit

\* one call of getFallbackTasks: its arguments, what it returned or that it raised, and
\* the same of the call before it
CallGetFallbackTasks(count, difficulty) ==
    /\ reply' = [op |-> "getFallbackTasks",
                 count |-> count,
                 difficulty |-> difficulty,
                 error |-> IF FallbackThrows(count, difficulty) THEN "TypeError" ELSE "none",
                 tasks |-> IF FallbackThrows(count, difficulty) THEN <<>>
                           ELSE getFallbackTasks(count, difficulty),
                 previous |-> IF reply.op = "getFallbackTasks"
                              THEN [reply EXCEPT !.previous = NoReply]
                              ELSE NoReply]
    /\ UNCHANGED <<dailyTask, now, deadline, configured, pastDay, planCall, pc, call, sessionVars>>

NextFallback ==
    \E count \in 1..MaxCount, difficulty \in FallbackDifficulties :
        CallGetFallbackTasks(count, difficulty)

SpecFallback == InitFallback /\ [][NextFallback]_vars

(* ========= the goal-clarification flow: answers and completion ======== *)
\* most goals the model lets completeSession create
MaxGoals == 3

\* the one stored question, and a question id that resolves to no question
QuestionId == "q1"

MissingQuestionId == "q0"

\* the one stored session, and a session id that resolves to no session
SessionId == "s1"

MissingSessionId == "s0"

\* createAnswerDto.answerText
AnswerTexts == {"yes", "no"}

\* question.answers of findUnique({ include: { answers: true } })
AnswersOf(table, questionId) == SelectSeq(table, LAMBDA a : a.questionId = questionId)

InitSession ==
    /\ dailyTask = <<>>
    /\ pastDay = 0
    /\ now = Today * TicksPerDay
    /\ deadline = (Today + 10) * TicksPerDay
    /\ configured = TRUE
    /\ planCall = NoCall
    /\ pc = [r \in Requests |-> "idle"]
    /\ call = [r \in Requests |-> Idle]
    /\ reply = NoReply
    /\ SessionStoreInit

\* answerQuestion up to its create: findUnique with the answers, NotFound when the
\* question does not resolve, Conflict when it already has an answer
AnswerStart(r, questionId, answerText) ==
    /\ handler[r].pc = "idle"
    /\ LET found == questionId = QuestionId
           answers == AnswersOf(goalAnswer, questionId)
       IN handler' = [handler EXCEPT ![r] =
              [op |-> "answerQuestion", id |-> questionId, answerText |-> answerText,
               answers |-> answers, goalId |-> NoGoal,
               pc |-> IF found /\ Len(answers) = 0 THEN "create" ELSE "failed",
               error |-> IF ~found THEN "NotFound"
                         ELSE IF Len(answers) > 0 THEN "Conflict" ELSE "none"]]
    /\ UNCHANGED <<goalAnswer, goal, goalSession, taskVars>>

\* variant: a GoalAnswer table without the unique index on questionId
AnswerCreateWithoutUniqueIndex(r) ==
    /\ handler[r].pc = "create"
    /\ goalAnswer' = Append(goalAnswer, [id |-> Len(goalAnswer) + 1,
                                         questionId |-> handler[r].id,
                                         answer |-> handler[r].answerText])
    /\ handler' = [handler EXCEPT ![r].pc = "done"]
    /\ UNCHANGED <<goal, goalSession, taskVars>>

\* prisma.goalAnswer.create: the unique index GoalAnswer_questionId_key rejects a second
\* row for the question (P2002), which the catch block turns into Conflict
AnswerCreate(r) ==
    /\ handler[r].pc = "create"
    /\ IF Len(AnswersOf(goalAnswer, handler[r].id)) > 0
       THEN /\ handler' = [handler EXCEPT ![r].pc = "failed", ![r].error = "Conflict"]
            /\ UNCHANGED goalAnswer
       ELSE /\ goalAnswer' = Append(goalAnswer, [id |-> Len(goalAnswer) + 1,
                                                 questionId |-> handler[r].id,
                                                 answer |-> handler[r].answerText])
            /\ handler' = [handler EXCEPT ![r].pc = "done"]
    /\ UNCHANGED <<goal, goalSession, taskVars>>

answerQuestion(r) ==
    \/ \E questionId \in {QuestionId, MissingQuestionId}, answerText \in AnswerTexts :
           AnswerStart(r, questionId, answerText)
    \/ AnswerCreate(r)

\* the completeSession requests that have read the session and not yet created their goal
GoalsToCome == {q \in Requests : handler[q].pc \in {"summary", "createGoal"}}

\* completeSession up to generateGoalSummary: findUnique with questions and answers,
\* NotFound when the session does not resolve
CompleteStart(r, sessionId) ==
    /\ handler[r].pc = "idle"
    /\ Len(goal) + Cardinality(GoalsToCome) < MaxGoals
    /\ handler' = [handler EXCEPT ![r] =
           [op |-> "completeSession", id |-> sessionId, answerText |-> "none",
            answers |-> AnswersOf(goalAnswer, QuestionId), goalId |-> NoGoal,
            pc |-> IF sessionId = SessionId THEN "summary" ELSE "failed",
            error |-> IF sessionId = SessionId THEN "none" ELSE "NotFound"]]
    /\ UNCHANGED <<goalAnswer, goal, goalSession, taskVars>>

\* aiService.generateGoalSummary settles (it answers with its fallback on any failure)
SummaryReturns(r) ==
    /\ handler[r].pc = "summary"
    /\ handler' = [handler EXCEPT ![r].pc = "createGoal"]
    /\ UNCHANGED <<goalAnswer, goal, goalSession, taskVars>>

\* prisma.goal.create: a new Goal row, built from the answers read at the start
CreateGoal(r) ==
    /\ handler[r].pc = "createGoal"
    /\ goal' = Append(goal, [id |-> Len(goal) + 1, answers |-> handler[r].answers])
    /\ handler' = [handler EXCEPT ![r].pc = "updateSession", ![r].goalId = Len(goal) + 1]
    /\ UNCHANGED <<goalAnswer, goalSession, taskVars>>

\* prisma.goalSession.update({ data: { status: 'completed', goalId: goal.id } })
UpdateSession(r) ==
    /\ handler[r].pc = "updateSession"
    /\ goalSession' = [status |-> "completed", goalId |-> handler[r].goalId]
    /\ handler' = [handler EXCEPT ![r].pc = "done"]
    /\ UNCHANGED <<goalAnswer, goal, taskVars>>

completeSession(r) ==
    \/ \E sessionId \in {SessionId, MissingSessionId} : CompleteStart(r, sessionId)
    \/ SummaryReturns(r)
    \/ CreateGoal(r)
    \/ UpdateSession(r)

\* the request has answered (a result or an error); the next one can be received
HandlerEnds(r) ==
    /\ handler[r].pc \in {"done", "failed"}
    /\ handler' = [handler EXCEPT ![r] = IdleHandler]
    /\ UNCHANGED <<goalAnswer, goal, goalSession, taskVars>>

NextSession == \E r \in Requests : answerQuestion(r) \/ completeSession(r) \/ HandlerEnds(r)

SpecSession == InitSession /\ [][NextSession]_vars

(* ======================= properties: SpecPlan ========================== *)
IsInt(x) == ~IsNaN(x)

\* the days before today, within `n` days, on which the table holds rows
DaysWithTasks(table, n) ==
    {a \in 1..n : \E i \in DOMAIN table : table[i].date = (Today - a) * TicksPerDay}

NoneCompleted(table) == \A i \in DOMAIN table : table[i].status # "COMPLETED"

\* C1: whatever the history (empty, with or without tasks inside the window) and whatever
\* the days to the deadline, the plan returned has finalTaskCount an integer in [1,6],
\* finalDifficulty an integer in [1,5] and carryOverRatio in [0,1].
C1_PlanWithinBounds ==
    planCall.called =>
        /\ planCall.plan.finalTaskCount \in MIN_TASK_COUNT..MAX_TASK_COUNT
        /\ planCall.plan.finalDifficulty \in MIN_DIFFICULTY..MAX_DIFFICULTY
        /\ FracGE(planCall.plan.carryOverRatio, Frac(0, 1))
        /\ FracGE(Frac(1, 1), planCall.plan.carryOverRatio)

\* C8: for a non-empty history the strategy is the first match of INTERVENTION (3 or more
\* consecutive missed days), PROGRESSIVE (ratio >= 0.8), BALANCED (>= 0.5), RECOVERY (>= 0.2),
\* RESET (otherwise), read off the diagnostics the plan returns.
C8_StrategyFirstMatch ==
    (planCall.called /\ Len(planCall.previousTasks) > 0) =>
        LET missed == planCall.plan.consecutiveMissedDays
            done == planCall.plan.completionRatio[1]
            total == planCall.plan.completionRatio[2]
            name == planCall.plan.strategyName
        IN /\ missed >= 3 => name = "INTERVENTION"
           /\ (missed < 3 /\ 10 * done >= 8 * total) => name = "PROGRESSIVE"
           /\ (missed < 3 /\ 10 * done < 8 * total /\ 10 * done >= 5 * total)
                  => name = "BALANCED"
           /\ (missed < 3 /\ 10 * done < 5 * total /\ 10 * done >= 2 * total)
                  => name = "RECOVERY"
           /\ (missed < 3 /\ 10 * done < 2 * total) => name = "RESET"

\* C8 witness: a plan computed from three fully missed days, INTERVENTION chosen
C8_Witness ==
    /\ planCall.called
    /\ planCall.plan.consecutiveMissedDays >= 3
    /\ planCall.plan.strategyName = "INTERVENTION"

\* C9: when each of the 4 most recent calendar days holds tasks and none of them is
\* COMPLETED, the plan reports at least 3 consecutive missed days, INTERVENTION and a
\* carry-over ratio of 0.8, at whatever time of day it is computed.
C9_FourMissedDaysIntervene ==
    (/\ planCall.called
     /\ DaysWithTasks(dailyTask, 4) = 1..4
     /\ NoneCompleted(dailyTask)) =>
        /\ planCall.plan.consecutiveMissedDays >= 3
        /\ planCall.plan.strategyName = "INTERVENTION"
        /\ planCall.plan.carryOverRatio = Frac(8, 10)

\* C14: for an empty history the plan is exactly 3 tasks at difficulty 2, carry-over
\* ratio 0, BALANCED, completion ratio 0 and no missed day, whatever the days to the
\* deadline.
C14_ColdStartPlan ==
    (planCall.called /\ Len(planCall.previousTasks) = 0) =>
        planCall.plan = [finalTaskCount |-> 3, finalDifficulty |-> 2,
                         carryOverRatio |-> Frac(0, 1), strategyName |-> "BALANCED",
                         completionRatio |-> Frac(0, 1), consecutiveMissedDays |-> 0]

\* C14 witness: a plan computed from no history with the deadline passed
C14_Witness ==
    /\ planCall.called
    /\ Len(planCall.previousTasks) = 0
    /\ planCall.daysUntilDeadline < 0
    /\ planCall.plan.strategyName = "BALANCED"

\* C15: calculateTaskParameters gives count 3 and difficulty 1 for no previous task, and
\* for every history and deadline an integer count in [2,8] and difficulty in [1,5].
C15_TaskParametersWithinBounds ==
    planCall.called =>
        /\ Len(planCall.previousTasks) = 0 =>
               planCall.taskParams = [count |-> 3, difficulty |-> 1]
        /\ planCall.taskParams.count \in 2..8
        /\ planCall.taskParams.difficulty \in 1..5

\* C15 witness: parameters computed from a one-task history with none completed
C15_Witness ==
    /\ planCall.called
    /\ Len(planCall.previousTasks) = 1
    /\ NoneCompleted(planCall.previousTasks)
    /\ planCall.taskParams.count = 2

\* the tasks of the history inside the window: dated at or after now - 3 days
InWindow(tasks) == SelectSeq(tasks, LAMBDA t : t.date >= now - WINDOW_DAYS * TicksPerDay)

\* the calendar days on which the tasks lie
DaysOf(tasks) == {tasks[i].date \div TicksPerDay : i \in DOMAIN tasks}

\* C17: a PROGRESSIVE plan has finalDifficulty = min(5, ceil(avgDifficulty) + 1),
\* finalTaskCount = min(6, ceil(avgTaskCount * m) + 1) with m = 1.2 up to 7 days to the
\* deadline (zero and negative included), 1.1 up to 30 days, 1 beyond, and carry-over
\* ratio 0; 3 tasks yesterday, all COMPLETED at difficulty 2, 10 days to the deadline give
\* count 5, difficulty 3, ratio 0.
C17_ProgressiveFormula ==
    (planCall.called /\ planCall.plan.strategyName = "PROGRESSIVE") =>
        LET recent == InWindow(planCall.previousTasks)
            days == Cardinality(DaysOf(recent))
            d == planCall.daysUntilDeadline
            m == IF d <= 7 THEN <<12, 10>> ELSE IF d <= 30 THEN <<11, 10>> ELSE <<1, 1>>
            \* ceil of (sum of difficulties / number of tasks)
            ceilAvgDifficulty == -((-SumDifficulty(recent)) \div Len(recent))
            \* ceil of (number of tasks / number of days * m)
            ceilCount == -((-(Len(recent) * m[1])) \div (days * m[2]))
            yesterday == (Today - 1) * TicksPerDay
        IN /\ planCall.plan.finalDifficulty =
                  (IF ceilAvgDifficulty + 1 < 5 THEN ceilAvgDifficulty + 1 ELSE 5)
           /\ planCall.plan.finalTaskCount = (IF ceilCount + 1 < 6 THEN ceilCount + 1 ELSE 6)
           /\ planCall.plan.carryOverRatio = <<0, 1>>
           /\ (/\ Len(planCall.previousTasks) = 3
               /\ \A i \in 1..3 : /\ planCall.previousTasks[i].date = yesterday
                                   /\ planCall.previousTasks[i].status = "COMPLETED"
                                   /\ planCall.previousTasks[i].difficulty = 2
               /\ d = 10) =>
                  /\ planCall.plan.finalTaskCount = 5
                  /\ planCall.plan.finalDifficulty = 3

\* C17 witness: the plan of 3 tasks of yesterday, all COMPLETED at difficulty 2, 10 days
\* before the deadline
C17_Witness ==
    /\ planCall.called
    /\ planCall.plan.strategyName = "PROGRESSIVE"
    /\ planCall.daysUntilDeadline = 10
    /\ Len(planCall.previousTasks) = 3
    /\ \A i \in DOMAIN planCall.previousTasks :
           /\ planCall.previousTasks[i].date = (Today - 1) * TicksPerDay
           /\ planCall.previousTasks[i].difficulty = 2

\* C18: an INTERVENTION plan sets the minimal difficulty: finalDifficulty is 1 whatever
\* the difficulties of the missed tasks.
C18_InterventionMinimalDifficulty ==
    (planCall.called /\ planCall.plan.strategyName = "INTERVENTION") =>
        planCall.plan.finalDifficulty = 1

\* C20: consecutiveMissedDays is the number of days, among the days that hold a task of
\* the window, from the most recent one down to (not including) the first day holding a
\* COMPLETED task; days without any task neither break nor extend the run.
C20_MissedRunIsLongestPrefix ==
    (planCall.called /\ Len(planCall.previousTasks) > 0) =>
        LET recent == InWindow(planCall.previousTasks)
            HasCompleted(day) ==
                \E i \in DOMAIN recent :
                    recent[i].date \div TicksPerDay = day /\ recent[i].status = "COMPLETED"
            run == {day \in DaysOf(recent) :
                        \A e \in DaysOf(recent) : e >= day => ~HasCompleted(e)}
        IN planCall.plan.consecutiveMissedDays = Cardinality(run)

\* C20 witness: a missed day, a day without tasks, then a day with a completion and a
\* pending task, all inside the window
C20_Witness ==
    /\ planCall.called
    /\ planCall.plan.consecutiveMissedDays = 1
    /\ DaysWithTasks(planCall.previousTasks, 3) = {1, 3}
    /\ \E i, j \in DOMAIN planCall.previousTasks :
           /\ planCall.previousTasks[i].date = (Today - 3) * TicksPerDay
           /\ planCall.previousTasks[j].date = (Today - 3) * TicksPerDay
           /\ planCall.previousTasks[i].status = "COMPLETED"
           /\ planCall.previousTasks[j].status = "PENDING"
    /\ now = Today * TicksPerDay

\* C21: for a non-empty history and a strategy other than PROGRESSIVE, the plan is the
\* clamp of the strategy's formula, with avgDifficulty the mean difficulty of the tasks
\* of the window and avgTaskCount the tasks of the window divided by their distinct days:
\* BALANCED round / round / 0.2, RECOVERY max(1, floor - 1) / max(1, floor) / 0.5, RESET
\* and INTERVENTION max(1, floor - 1) / max(1, floor - 1) / 0.7 and 0.8; two days of 2
\* SKIPPED tasks each give 2 missed days, RESET, count 1.
C21_StrategyFormulas ==
    (/\ planCall.called
     /\ Len(planCall.previousTasks) > 0
     /\ planCall.plan.strategyName # "PROGRESSIVE") =>
        LET recent == InWindow(planCall.previousTasks)
            days == Cardinality(DaysOf(recent))
            name == planCall.plan.strategyName
            plan == planCall.plan
            AtLeast1(x) == IF x > 1 THEN x ELSE 1
            Clamped(x, hi) == IF x < 1 THEN 1 ELSE IF x > hi THEN hi ELSE x
        IN \* the two means exist: the window holds a task
           /\ Len(recent) > 0
           /\ LET floorAvgDifficulty == SumDifficulty(recent) \div Len(recent)
                  roundAvgDifficulty == (2 * SumDifficulty(recent) + Len(recent))
                                            \div (2 * Len(recent))
                  floorAvgTaskCount == Len(recent) \div days
                  roundAvgTaskCount == (2 * Len(recent) + days) \div (2 * days)
              IN /\ name = "BALANCED" =>
                        /\ plan.finalDifficulty = Clamped(roundAvgDifficulty, 5)
                        /\ plan.finalTaskCount = Clamped(roundAvgTaskCount, 6)
                        /\ plan.carryOverRatio = <<2, 10>>
                 /\ name = "RECOVERY" =>
                        /\ plan.finalDifficulty = Clamped(AtLeast1(floorAvgDifficulty - 1), 5)
                        /\ plan.finalTaskCount = Clamped(AtLeast1(floorAvgTaskCount), 6)
                        /\ plan.carryOverRatio = <<5, 10>>
                 /\ name \in {"RESET", "INTERVENTION"} =>
                        /\ plan.finalDifficulty = Clamped(AtLeast1(floorAvgDifficulty - 1), 5)
                        /\ plan.finalTaskCount = Clamped(AtLeast1(floorAvgTaskCount - 1), 6)
                        /\ plan.carryOverRatio =
                               (IF name = "RESET" THEN <<7, 10>> ELSE <<8, 10>>)
                 /\ (/\ Len(recent) = 4
                     /\ Len(planCall.previousTasks) = 4
                     /\ days = 2
                     /\ floorAvgTaskCount = 2
                     /\ \A i \in 1..4 : recent[i].status = "SKIPPED"
                     /\ \A day \in DaysOf(recent) :
                            Len(SelectSeq(recent, LAMBDA t : t.date \div TicksPerDay = day)) = 2)
                        => /\ plan.consecutiveMissedDays = 2
                           /\ name = "RESET"
                           /\ plan.finalTaskCount = 1

\* the formulas of C21 on the histories whose window holds a task
C21_FormulasOnNonEmptyWindow ==
    (planCall.called /\ Len(InWindow(planCall.previousTasks)) > 0) => C21_StrategyFormulas

\* C22: the plan depends only on the tasks of the history inside the window and on the
\* days to the deadline: it is the plan of the history with every task dated before the
\* window removed, and a history whose window is empty gives completion ratio 0.
C22_PlanDependsOnWindowOnly ==
    planCall.called =>
        /\ planCall.plan = calculateAdaptivePlan(InWindow(planCall.previousTasks), now,
                                                 planCall.daysUntilDeadline)
        /\ Len(InWindow(planCall.previousTasks)) = 0 =>
               planCall.plan.completionRatio = Frac(0, 1)

\* the tasks of the most recent day of a history that holds a task
MostRecentDayTasks(tasks) ==
    SelectSeq(tasks, LAMBDA t : \A i \in DOMAIN tasks : t.date \div TicksPerDay >=
                                                         tasks[i].date \div TicksPerDay)

\* the tasks of a history that are COMPLETED
CompletedOf(tasks) == SelectSeq(tasks, LAMBDA t : t.status = "COMPLETED")

\* the tasks of the most recent day together with the COMPLETED tasks of any day
MostRecentOrCompleted(tasks) ==
    SelectSeq(tasks, LAMBDA t : \/ t.status = "COMPLETED"
                                \/ \A i \in DOMAIN tasks : t.date \div TicksPerDay >=
                                                            tasks[i].date \div TicksPerDay)

\* C23 as stated: calculateTaskParameters looks only at the tasks of the most recent day
\* that has tasks, so the history reduced to that day gives the same count and
\* difficulty, whatever older tasks it contains.
C23_OnlyMostRecentDay ==
    (planCall.called /\ Len(planCall.previousTasks) > 0) =>
        planCall.taskParams =
            calculateTaskParameters(deadline, MostRecentDayTasks(planCall.previousTasks), now)

\* C23 amended: the count depends only on the tasks of the most recent day that has tasks
\* and on the days to the deadline; the difficulty depends on these and on the COMPLETED
\* tasks of the older days (their mean difficulty), and on no other older task.
C23_MostRecentDayAndCompleted ==
    (planCall.called /\ Len(planCall.previousTasks) > 0) =>
        /\ planCall.taskParams.count =
               calculateTaskParameters(deadline, MostRecentDayTasks(planCall.previousTasks),
                                       now).count
        /\ planCall.taskParams =
               calculateTaskParameters(deadline, MostRecentOrCompleted(planCall.previousTasks),
                                       now)

\* C23 witness: an older day holds more tasks than the most recent one, a COMPLETED one
\* that moves the difficulty and others that are not COMPLETED
C23_Witness ==
    /\ planCall.called
    /\ Len(MostRecentDayTasks(planCall.previousTasks)) = 1
    /\ Len(planCall.previousTasks) = 4
    /\ Len(CompletedOf(planCall.previousTasks)) = 1
    /\ planCall.taskParams.difficulty #
           calculateTaskParameters(deadline, MostRecentDayTasks(planCall.previousTasks),
                                   now).difficulty

\* C24: for a non-empty history the legacy parameters are, in this order: completion rate
\* of the most recent day = 1: count + 1, difficulty min(difficulty of the most recent
\* task + 1, 5); rate >= 0.7: same count, min(round(avgCompletedDifficulty + 0.5), 5);
\* otherwise same count, max(round(avgCompletedDifficulty), 1); then, only if
\* 0 < daysUntilDeadline <= 7, count min(count + 1, 8) and difficulty min(difficulty + 1, 5),
\* no boost for a deadline today or in the past; the result is clamped as in C15.
C24_LegacyRulesInOrder ==
    (planCall.called /\ Len(planCall.previousTasks) > 0) =>
        LET mostRecent == MostRecentDayTasks(planCall.previousTasks)
            total == Len(mostRecent)
            done == Len(CompletedOf(mostRecent))
            completed == CompletedOf(planCall.previousTasks)
            \* avgCompletedDifficulty = sum / n (1 when nothing is COMPLETED)
            sum == IF Len(completed) > 0 THEN SumDifficulty(completed) ELSE 1
            n == IF Len(completed) > 0 THEN Len(completed) ELSE 1
            roundAvg == (2 * sum + n) \div (2 * n)
            roundAvgPlusHalf == (2 * sum + 2 * n) \div (2 * n)
            AtMost(x, hi) == IF x < hi THEN x ELSE hi
            AtLeast(x, lo) == IF x > lo THEN x ELSE lo
            count1 == IF done = total THEN total + 1 ELSE total
            difficulty1 ==
                IF done = total THEN AtMost(mostRecent[1].difficulty + 1, 5)
                ELSE IF 10 * done >= 7 * total THEN AtMost(roundAvgPlusHalf, 5)
                ELSE AtLeast(roundAvg, 1)
            \* whole days from the start of today to the deadline
            d == -((-(deadline - (now \div TicksPerDay) * TicksPerDay)) \div TicksPerDay)
            boost == 0 < d /\ d <= 7
            count2 == IF boost THEN AtMost(count1 + 1, 8) ELSE count1
            difficulty2 == IF boost THEN AtMost(difficulty1 + 1, 5) ELSE difficulty1
        IN /\ planCall.taskParams.count = AtLeast(AtMost(count2, 8), 2)
           /\ planCall.taskParams.difficulty = AtLeast(AtMost(difficulty2, 5), 1)

\* C24 witness: three of four tasks of the most recent day COMPLETED (rate 0.75), the
\* deadline today, no boost
C24_Witness ==
    /\ planCall.called
    /\ Len(MostRecentDayTasks(planCall.previousTasks)) = 4
    /\ Len(CompletedOf(planCall.previousTasks)) = 3
    /\ deadline = Today * TicksPerDay
    /\ planCall.taskParams = [count |-> 4, difficulty |-> 3]

\* C25: the composition generateTasks asks for is a partition of the plan's count:
\* adaptedCount = round(finalTaskCount x carryOverRatio), newCount = finalTaskCount -
\* adaptedCount, so 0 <= adaptedCount <= finalTaskCount, newCount >= 0 and the two add up
\* to finalTaskCount; adaptedCount is 0 for PROGRESSIVE and for the cold-start plan.
C25_AdaptedAndNewPartitionCount ==
    planCall.called =>
        LET finalTaskCount == planCall.plan.finalTaskCount
            ratio == planCall.plan.carryOverRatio
            adaptedCount == planCall.adaptedTaskCount
            newCount == planCall.newTaskCount
        IN /\ adaptedCount = (2 * finalTaskCount * ratio[1] + ratio[2]) \div (2 * ratio[2])
           /\ newCount = finalTaskCount - adaptedCount
           /\ adaptedCount \in 0..finalTaskCount
           /\ newCount \in 0..finalTaskCount
           /\ adaptedCount + newCount = finalTaskCount
           /\ (\/ planCall.plan.strategyName = "PROGRESSIVE"
               \/ Len(planCall.previousTasks) = 0) => adaptedCount = 0

\* C25 witness: a BALANCED plan of 2 tasks, 2 x 0.2 = 0.4 rounding to no adapted task
C25_Witness ==
    /\ planCall.called
    /\ Len(planCall.previousTasks) > 0
    /\ planCall.plan.strategyName = "BALANCED"
    /\ planCall.plan.finalTaskCount = 2
    /\ planCall.adaptedTaskCount = 0
    /\ planCall.newTaskCount = 2

(* ========================= properties: Spec ============================ *)
\* the adaptive plan generateTasks computes for request r
PlanOf(r) ==
    calculateAdaptivePlan(call[r].previousTasks, now, getDaysDifference(now, deadline))

\* generateTasks has returned to request r
Composed(r) == pc[r] \in {"save", "done", "failed"} /\ Len(call[r].generatedTasks) > 0

\* request r went through a generation and stored all of it
Generated(r) == pc[r] = "done" /\ Len(call[r].existing) = 0

GeneratorFailures == ResponseKinds \ {"tasks"}

IsTemplate(task) == task.title[1] = "template"

\* C2: however the steps of concurrent requests for one goal interleave, the rows stored
\* for today are those of a single generation: at most one request has created rows.
C2_AtMostOneBatch ==
    \A r, q \in Requests : (r # q /\ Len(call[r].saved) > 0) => Len(call[q].saved) = 0

\* C3: a request received after another one has completed returns exactly the rows that
\* one stored, creates no row and calls neither the content generator nor create.
C3_SecondCallReturnsStored ==
    \A r, q \in Requests :
        (q \in call[r].after /\ pc[r] = "done") =>
            /\ Returned(r) = call[q].saved
            /\ getTodayTasks(dailyTask, GoalId, now) = call[q].saved
            /\ call[r].saved = <<>>
            /\ call[r].generatedTasks = <<>>
            /\ call[r].response.kind = "none"

\* C3 witness: such a second request has completed
C3_Witness ==
    \E r, q \in Requests :
        q \in call[r].after /\ pc[r] = "done" /\ Len(Returned(r)) > 0

\* C4: with the generator configured and answering a parseable task array, generateTasks
\* returns exactly plan.finalTaskCount tasks, whatever the number of valid items.
C4_ComposedLengthIsPlanCount ==
    \A r \in Requests :
        (configured /\ call[r].response.kind = "tasks") =>
            Len(call[r].generatedTasks) = PlanOf(r).finalTaskCount

\* C5: a request that generates calls create exactly finalTaskCount times, on every
\* generator path (unconfigured, failing, answering).
C5_CreatesEqualPlanCount ==
    \A r \in Requests : Generated(r) => Len(call[r].saved) = PlanOf(r).finalTaskCount

\* C6: when the generator is unconfigured or fails (throws, empty text, unparseable text,
\* no task array) generateTasks still returns a non-empty list of template tasks, and a
\* request that ends without an error has tasks stored for today.
C6_GeneratorFailureFallsBack ==
    \A r \in Requests :
        /\ (/\ pc[r] \in {"save", "done", "failed"}
            /\ call[r].error # "NotFound"
            /\ Len(call[r].existing) = 0
            /\ (~configured \/ call[r].response.kind \in GeneratorFailures)) =>
               /\ Len(call[r].generatedTasks) > 0
               /\ \A k \in DOMAIN call[r].generatedTasks : IsTemplate(call[r].generatedTasks[k])
        /\ pc[r] = "done" => Len(getTodayTasks(dailyTask, GoalId, now)) > 0
        /\ pc[r] = "failed" => call[r].error \in {"NotFound", "PersistenceFailure"}

\* C6 witness: a request whose generator call threw has stored its fallback tasks
C6_Witness ==
    \E r \in Requests :
        configured /\ call[r].response.kind = "throws" /\ Generated(r) /\ Len(call[r].saved) > 0

\* C7: a request waiting for the content generator eventually completes, also when the
\* generator never answers.
C7_AwaitingRequestCompletes ==
    \A r \in Requests : (pc[r] = "awaitAI") ~> (pc[r] \in {"done", "failed"})

\* C10: every row a generation stores carries the finalDifficulty of the adaptive plan
\* generateTasks used to compose the batch.
C10_StoredDifficultyIsPlanDifficulty ==
    \A r \in Requests :
        (configured /\ call[r].response.kind = "tasks") =>
            \A k \in DOMAIN call[r].saved :
                call[r].saved[k].difficulty = PlanOf(r).finalDifficulty

\* the requests whose generateTasks has computed its adaptive plan
Planned == {r \in Requests : call[r].plan # NoPlan}

\* two plans computed from equal histories (the clock and the deadline being the same)
\* are equal
SamePlanForSameHistory ==
    \A r, q \in Planned :
        call[r].previousTasks = call[q].previousTasks => call[r].plan = call[q].plan

GeneratedOf(tasks) == SelectSeq(tasks, LAMBDA t : t.title[1] = "generated")

\* C26: every task generateTasks returns has a non-blank title and an integer difficulty
\* in [1,5]: items with an empty or blank title are dropped, an item's difficulty is
\* clamped to [1,5], an absent one defaults to plan.finalDifficulty, and at most
\* finalTaskCount items of the generator are kept.
C26_ReturnedTasksSanitized ==
    \A r \in Requests :
        Composed(r) =>
            /\ \A k \in DOMAIN call[r].generatedTasks :
                   LET task == call[r].generatedTasks[k]
                   IN /\ task.difficulty \in 1..5
                      /\ task.title[1] = "generated" =>
                             /\ ValidTitle(task.title[2])
                             /\ task.difficulty = PlanOf(r).finalDifficulty
            /\ (configured /\ call[r].response.kind = "tasks") =>
                   LET kept == Len(GeneratedOf(call[r].generatedTasks))
                   IN /\ kept <= call[r].response.valid
                      /\ kept <= PlanOf(r).finalTaskCount

\* the properties of C26 for the requests whose plan has a difficulty in [1,5]
C26_SanitizedUnderIntegerPlan ==
    \A r \in Requests :
        (Composed(r) /\ PlanOf(r).finalDifficulty \in 1..5) =>
            /\ \A k \in DOMAIN call[r].generatedTasks :
                   LET task == call[r].generatedTasks[k]
                   IN /\ task.difficulty \in 1..5
                      /\ task.title[1] = "generated" =>
                             /\ ValidTitle(task.title[2])
                             /\ task.difficulty = PlanOf(r).finalDifficulty
            /\ (configured /\ call[r].response.kind = "tasks") =>
                   LET kept == Len(GeneratedOf(call[r].generatedTasks))
                   IN /\ kept <= call[r].response.valid
                      /\ kept <= PlanOf(r).finalTaskCount

\* request q has failed on a create of saveTasks
FailedOnCreate(q) == pc[q] = "failed" /\ call[q].error = "PersistenceFailure"

\* request r was received after request q had failed on a create, and has completed
RetriedAfter(r, q) ==
    q \in call[r].afterFailed /\ call[q].error = "PersistenceFailure" /\ pc[r] = "done"

\* C28 as stated: the tasks a generation stores for the day number zero or the full count
\* of its batch, also when a create fails partway through saveTasks, and a request
\* retried after such a failure ends with a full batch stored.
C28_BatchAllOrNothing ==
    \A r, q \in Requests :
        /\ FailedOnCreate(q) => Len(call[q].saved) \in {0, Len(call[q].generatedTasks)}
        /\ RetriedAfter(r, q) =>
               Len(getTodayTasks(dailyTask, GoalId, now)) \in
                   {Len(call[q].generatedTasks), Len(call[r].generatedTasks)} \ {0}

\* C28 amended: a create that fails partway through saveTasks leaves the rows created
\* before it stored, fewer than the batch; a request received after the failure returns
\* exactly those rows and creates none, and generates a batch of its own only when the
\* failure left no row.
C28_PartialBatchStays ==
    \A r, q \in Requests :
        /\ FailedOnCreate(q) =>
               /\ Len(call[q].saved) < Len(call[q].generatedTasks)
               /\ \A k \in DOMAIN call[q].saved :
                      \E i \in DOMAIN dailyTask : dailyTask[i] = call[q].saved[k]
        /\ RetriedAfter(r, q) =>
               IF Len(call[q].saved) > 0
               THEN /\ Returned(r) = call[q].saved
                    /\ getTodayTasks(dailyTask, GoalId, now) = call[q].saved
                    /\ call[r].saved = <<>>
                    /\ call[r].generatedTasks = <<>>
               ELSE /\ Len(call[r].generatedTasks) > 0
                    /\ Len(call[r].saved) = Len(call[r].generatedTasks)
                    /\ getTodayTasks(dailyTask, GoalId, now) = call[r].saved

\* C28 witness: a retried request has returned the one row a failed batch of several left
C28_Witness ==
    \E r, q \in Requests :
        /\ RetriedAfter(r, q)
        /\ Len(call[q].saved) = 1
        /\ Len(call[q].generatedTasks) > 1
        /\ Returned(r) = call[q].saved

(* ====================== properties: SpecFallback ======================= *)
\* C19: getFallbackTasks(count, difficulty) returns exactly count tasks, task i (0-based)
\* from template i mod (templates of the level) with the suffix (i+1) exactly when i > 2,
\* every level holding at least 2 templates, and two calls with the same arguments return
\* identical sequences.
C19_FallbackTasksByTemplate ==
    reply.op = "getFallbackTasks" =>
        /\ reply.error = "none"
        /\ Len(reply.tasks) = reply.count
        /\ TemplatesPerLevel >= 2
        /\ \A k \in DOMAIN reply.tasks :
               LET i == k - 1
               IN /\ reply.tasks[k].title[3] = i % TemplatesPerLevel
                  /\ reply.tasks[k].title[4] = (IF i > 2 THEN i + 1 ELSE 0)
        /\ (/\ reply.previous.op = "getFallbackTasks"
            /\ reply.previous.count = reply.count
            /\ reply.previous.difficulty = reply.difficulty) =>
               reply.previous.tasks = reply.tasks

(* ======================== properties: SpecDay ========================== *)
\* C11: every stored task has an integer difficulty in [1,5]; every task a generation
\* creates is PENDING, dated at the start of the current day, and carries the difficulty
\* of the other tasks of its batch.
C11_StoredTasksWellFormed ==
    /\ \A i \in DOMAIN dailyTask : dailyTask[i].difficulty \in 1..5
    /\ \A r \in Requests : \A k \in DOMAIN call[r].saved :
           /\ call[r].saved[k].status = "PENDING"
           /\ call[r].saved[k].date = getStartOfTodayUTC(now)
           /\ call[r].saved[k].difficulty = call[r].saved[1].difficulty
           /\ call[r].saved[k].difficulty \in 1..5

\* C11 witness: a batch of two or more rows stored after midnight, one of its rows
\* since set to COMPLETED
C11_Witness ==
    \E r \in Requests :
        /\ pc[r] = "done"
        /\ Len(call[r].saved) >= 2
        /\ now # getStartOfTodayUTC(now)
        /\ \E i \in DOMAIN dailyTask :
               /\ dailyTask[i].date = getStartOfTodayUTC(now)
               /\ dailyTask[i].status = "COMPLETED"

\* C12: a task's status only ever changes from PENDING (to COMPLETED or to SKIPPED): a
\* COMPLETED or SKIPPED task keeps its status in every step.
C12_StatusOnlyLeavesPending ==
    [][\A i \in DOMAIN dailyTask :
           dailyTask'[i].status # dailyTask[i].status => dailyTask[i].status = "PENDING"]_vars

\* a request for an unknown goal has failed with NotFound and has done nothing else
NotFoundClean ==
    \A r \in Requests :
        (pc[r] # "idle" /\ call[r].goalId = MissingGoalId) =>
            /\ pc[r] = "failed"
            /\ call[r].error = "NotFound"
            /\ call[r].saved = <<>>
            /\ call[r].generatedTasks = <<>>
            /\ call[r].response.kind = "none"
            /\ call[r].plan = NoPlan

\* C13: generateTasksForToday and getTodayTasks for a goal id that does not resolve fail
\* with NotFound; the step changes no stored task and the generator is not called.
C13_UnknownGoalNotFound ==
    [][/\ NotFoundClean'
       /\ (\E r \in Requests : pc[r] = "idle" /\ pc'[r] = "failed") => dailyTask' = dailyTask
       /\ (reply'.op = "getTodayTasks" /\ reply' # reply) =>
              /\ dailyTask' = dailyTask
              /\ reply'.goalId = MissingGoalId =>
                     (reply'.error = "NotFound" /\ reply'.tasks = <<>>)]_vars

\* C13 witness: both requests for the unknown goal have been answered NotFound
C13_Witness ==
    /\ \E r \in Requests :
           pc[r] = "failed" /\ call[r].goalId = MissingGoalId /\ call[r].error = "NotFound"
    /\ reply.op = "getTodayTasks"
    /\ reply.goalId = MissingGoalId
    /\ reply.error = "NotFound"

\* the step is an updateTaskStatus request, answered by the new `reply` (a request that
\* repeats the one before it, with the same answer, changes nothing)
UpdateStep == reply'.op = "updateTaskStatus" /\ reply' # reply

\* C27: updateTaskStatus is an unconstrained overwrite: for an existing task and any
\* requested status the task's status becomes the requested one whatever it was, no other
\* field of the task and no other task changes; for an unknown id it fails with NotFound
\* and nothing changes.
C27_UpdateIsUnconstrainedOverwrite ==
    [][IF ~UpdateStep
       THEN \A i \in DOMAIN dailyTask : dailyTask'[i] = dailyTask[i]
       ELSE
         LET taskId == reply'.taskId
         IN IF taskId \in DOMAIN dailyTask
            THEN /\ reply'.error = "none"
                 /\ DOMAIN dailyTask' = DOMAIN dailyTask
                 /\ dailyTask'[taskId].status = reply'.status
                 /\ \A field \in {"goalId", "title", "date", "difficulty"} :
                        dailyTask'[taskId][field] = dailyTask[taskId][field]
                 /\ \A i \in DOMAIN dailyTask : i # taskId => dailyTask'[i] = dailyTask[i]
                 /\ reply'.tasks = <<dailyTask'[taskId]>>
            ELSE /\ reply'.error = "NotFound"
                 /\ dailyTask' = dailyTask]_vars

\* C27 witness: the stored task that was COMPLETED when the day began has been set back
\* to PENDING by the last update
C27_Witness ==
    /\ reply.op = "updateTaskStatus"
    /\ reply.error = "none"
    /\ reply.taskId = 1
    /\ reply.status = "PENDING"
    /\ Len(dailyTask) >= 1
    /\ dailyTask[1].title = <<"stored", 1, 1>>
    /\ dailyTask[1].status = "PENDING"

(* ====================== properties: SpecSession ======================== *)
\* request r moves on in this step
Moves(r) == handler'[r] # handler[r]

\* C29: at most one answer is ever stored per question, also when two answerQuestion
\* requests for it interleave between the already-answered check and the create: the
\* request that stores adds exactly its answer, every other one fails with Conflict and
\* stores nothing; answering an unknown question fails with NotFound.
C29_OneAnswerPerQuestion ==
    [][/\ Len(AnswersOf(goalAnswer', QuestionId)) <= 1
       /\ Len(AnswersOf(goalAnswer', MissingQuestionId)) = 0
       /\ \A r \in Requests :
              (Moves(r) /\ handler'[r].op = "answerQuestion") =>
                  CASE handler'[r].pc = "done" ->
                         /\ AnswersOf(goalAnswer, handler'[r].id) = <<>>
                         /\ Len(goalAnswer') = Len(goalAnswer) + 1
                         /\ goalAnswer'[Len(goalAnswer')].questionId = handler'[r].id
                         /\ goalAnswer'[Len(goalAnswer')].answer = handler'[r].answerText
                    [] handler'[r].pc = "failed" ->
                         /\ goalAnswer' = goalAnswer
                         /\ IF handler'[r].id = MissingQuestionId
                            THEN handler'[r].error = "NotFound"
                            ELSE /\ handler'[r].error = "Conflict"
                                 /\ Len(AnswersOf(goalAnswer, handler'[r].id)) = 1
                    [] OTHER -> goalAnswer' = goalAnswer]_vars

\* C29 witness: two requests passed the already-answered check together; one has stored
\* its answer, the other was rejected on its create
C29_Witness ==
    \E r, q \in Requests :
        /\ r # q
        /\ handler[r].op = "answerQuestion" /\ handler[r].pc = "done"
        /\ handler[q].op = "answerQuestion" /\ handler[q].pc = "failed"
        /\ handler[q].error = "Conflict"
        /\ handler[q].answers = <<>>
        /\ Len(goalAnswer) = 1
        /\ goalAnswer[1].answer = handler[r].answerText

\* no completeSession request is between its first read and its last write
NoCompletionInFlight ==
    \A r \in Requests : handler[r].op = "completeSession" => handler[r].pc \in {"done", "failed"}

\* C30: each session produces at most one goal: once completeSession has completed, and
\* after any further completeSession calls on the session, exactly one goal has been
\* created for it, and the session, with status completed, links to that goal.
C30_OneGoalPerSession ==
    /\ Len(goal) <= 1
    /\ (goalSession.status = "completed" /\ NoCompletionInFlight) =>
           /\ Len(goal) = 1
           /\ goalSession.goalId = goal[1].id

====
